---- MODULE Spec2Model ----
(***************************************************************************)
(* generator-utils: the iterator adapter GenIter, the lazy combinators     *)
(* Map, Filter, Take, TakeWhile, Mapped and the eager folds, modelled as   *)
(* a chain of combinator layers around one leaf generator.                 *)
(*                                                                         *)
(* Levels are numbered from the outside: level 1 is the outermost          *)
(* combinator, level Len(layers) + 1 is the leaf generator.  With an empty *)
(* chain level 1 is the leaf itself.                                       *)
(***************************************************************************)
EXTENDS Integers, Sequences, FiniteSets, TLC

\* ---------------------------------------------------------------- bounds
MaxLen   == 3      \* longest yield sequence of the leaf generator
MaxDepth == 2      \* most combinators in one chain
MaxTake  == 2      \* largest count given to take()
MaxCalls == 5      \* most calls the driver makes on the outermost handle

\* the values a leaf generator yields
Values == {1, 2}

\* ------------------------------------------------ user-supplied closures
Transforms == {"double"}
Predicates == {"even", "lt2"}
Folders    == {"add", "horner"}

\* F: FnMut(G::Yield) -> O
ApplyF(f, y) == IF f = "double" THEN y * 2 ELSE y

\* P: FnMut(&G::Yield) -> bool
ApplyP(p, y) == IF p = "even" THEN y % 2 = 0 ELSE y < 2

\* F: FnMut(B, Self::Yield) -> B
ApplyFold(f, acc, y) == IF f = "add" THEN acc + y ELSE 2 * acc + y

\* ------------------------------------------------------- GeneratorState
\* Return values are carried as sequences: <<>> is the unit value (),
\* <<r>> a return value r.  Option<T> likewise: <<>> is None, <<v>> Some(v).
Unit == <<>>
None == <<>>
Some(v) == <<v>>

Yielded(y)  == [tag |-> "Yielded",  val |-> <<y>>]
Complete(r) == [tag |-> "Complete", val |-> r]
\* a panic unwinding out of resume(), and a resume() call that never returns
Panic == [tag |-> "Panic", val |-> <<>>]
Hang  == [tag |-> "Hang",  val |-> <<>>]

\* What a leaf generator may do when it is resumed after it has returned
\* Complete: generator literals panic, other implementations of the
\* Generator trait may also return anything.
LateOutcomes == {Panic, Complete(Unit)} \cup {Yielded(v) : v \in Values}

\* --------------------------------------------------------------- layers
\* One combinator struct: kind, its closure, Take's count, TakeWhile's
\* complete flag, and for Mapped the state of the generator the user
\* function produced (its GenIter's Option and whether it has returned).
\* `given` remembers the count take() was called with, `applied` how often
\* the user function of mapped() has been applied.
MkLayer(k, f, n) ==
  [kind |-> k, fn |-> f, count |-> n, given |-> n, complete |-> FALSE,
   some |-> TRUE, returned |-> FALSE, applied |-> 0]

\* Map::new
Map_new(f) == MkLayer("map", f, 0)
\* Filter::new
Filter_new(p) == MkLayer("filter", p, 0)
\* Take::new
Take_new(n) == MkLayer("take", "", n)
\* TakeWhile::new
TakeWhile_new(p) == MkLayer("take_while", p, 0)
\* Mapped::new(f(self)) with f the transform of tests::generator_mapped
Mapped_new == MkLayer("mapped", "double", 0)

LayerChoices ==
  {Map_new(f) : f \in Transforms} \cup {Filter_new(p) : p \in Predicates}
  \cup {Take_new(n) : n \in 0..MaxTake}
  \cup {TakeWhile_new(p) : p \in Predicates} \cup {Mapped_new}

RECURSIVE SeqsUpTo(_, _)
SeqsUpTo(S, n) ==
  IF n = 0 THEN {<<>>}
  ELSE LET shorter == SeqsUpTo(S, n - 1)
       IN shorter \cup {Append(s, x) : s \in {t \in shorter : Len(t) = n - 1}, x \in S}

\* ------------------------------------------------------------ the chain
\* A chain value g bundles the combinator structs, the leaf generator and
\* the observation counters of every level.
NewChain(ls, items, r) ==
  [layers    |-> ls,
   src       |-> items,                         \* what the leaf yields
   ret       |-> r,                             \* what the leaf returns
   pos       |-> 0,                             \* items the leaf has yielded
   done      |-> FALSE,                         \* the leaf has returned
   resumes   |-> [i \in 1..Len(ls) + 1 |-> 0],  \* resume() calls per level
   outs      |-> [i \in 1..Len(ls) + 1 |-> <<>>],  \* values yielded per level
   calls     |-> [i \in 1..Len(ls) + 1 |-> 0],  \* closure invocations per level
   completed |-> [i \in 1..Len(ls) + 1 |-> FALSE], \* level has returned Complete
   late      |-> [i \in 1..Len(ls) + 1 |-> FALSE], \* resumed after Complete
   pin       |-> [i \in 1..Len(ls) + 1 |-> <<>>], \* place level i is resumed at
   at        |-> [i \in 1..Len(ls) + 1 |-> {}],   \* places it has been resumed at
   rets      |-> [i \in 1..Len(ls) + 1 |-> <<>>]] \* the Return value it completed with

LeafLevel(g) == Len(g.layers) + 1

\* Bookkeeping on entry to and exit from level i's resume().
Enter(g, i) ==
  [g EXCEPT !.resumes[i] = @ + 1, !.late[i] = @ \/ g.completed[i],
            !.at[i] = @ \cup {g.pin[i]}]

\* Places are paths: the caller's variable, then the fields gone through.
\* PinTo: level i is about to be resumed through a pinned reference to
\* place a.
PinTo(g, i, a) == [g EXCEPT !.pin[i] = a]

\* PinAt: the caller pins its own variable `var`, which holds level 1.
PinAt(g, var) == PinTo(g, 1, <<var>>)

\* Pin::new_unchecked(&mut this.field), map_unchecked_mut(|s| &mut s.field):
\* the pinned reference to the inner generator of the struct at level i.
PinField(g, i, field) == [g EXCEPT !.pin[i + 1] = Append(g.pin[i], field)]

\* A pinned reference to something that the code at level i owns itself.
PinOwn(g, i, field) == [g EXCEPT !.pin[i] = Append(@, field)]

Leave(g, i, r) ==
  IF r.tag = "Yielded" THEN [g EXCEPT !.outs[i] = Append(@, r.val[1])]
  ELSE IF r.tag = "Complete"
  THEN [g EXCEPT !.completed[i] = TRUE, !.rets[i] = r.val]
  ELSE g

\* The leaf generator: `|| { for v in src { yield v }; ret }`.  `o` is what
\* it does if resumed after completion.
Leaf_resume(g, o) ==
  IF g.done THEN [r |-> o, g |-> g]
  ELSE IF g.pos < Len(g.src)
       THEN [r |-> Yielded(g.src[g.pos + 1]), g |-> [g EXCEPT !.pos = @ + 1]]
       ELSE [r |-> Complete(<<g.ret>>), g |-> [g EXCEPT !.done = TRUE]]


\* ---------------------------------------------------------- combinators
\* Each X_resume(g, i, o) is the body of `impl Generator for X` run on the
\* combinator at level i; it answers [r |-> GeneratorState, g |-> chain].
RECURSIVE Resume(_, _, _)

\* Filter never gives up on a rejected item.  A loop that has gone round
\* more often than the chain has state to change repeats itself for ever.
LoopFuel(g) == Len(g.src) + 2 + Len(g.layers) * (MaxTake + 2)

Layer(g, i) == g.layers[i]

\* Map::resume that hands the inner item on without applying the closure.
Map_resume_skips(g, i, o) ==
  LET x == Resume(PinField(g, i, "g"), i + 1, o)
  IN IF x.r.tag = "Yielded"
     THEN [r |-> x.r, g |-> x.g]
     ELSE x

\* Map::resume that completes with () instead of the inner Return value.
Map_resume_unit(g, i, o) ==
  LET x == Resume(PinField(g, i, "g"), i + 1, o)
  IN IF x.r.tag = "Yielded"
     THEN [r |-> Yielded(ApplyF(Layer(g, i).fn, x.r.val[1])),
           g |-> [x.g EXCEPT !.calls[i] = @ + 1]]
     ELSE IF x.r.tag = "Complete" THEN [r |-> Complete(Unit), g |-> x.g]
     ELSE x

\* src/map.rs: Map::resume
Map_resume(g, i, o) ==
  LET x == Resume(PinField(g, i, "g"), i + 1, o)
  IN IF x.r.tag = "Yielded"
     THEN [r |-> Yielded(ApplyF(Layer(g, i).fn, x.r.val[1])),
           g |-> [x.g EXCEPT !.calls[i] = @ + 1]]
     ELSE x

\* Filter::resume whose test is negated: it yields the rejected items.
RECURSIVE Filter_loop_negated(_, _, _, _)
Filter_loop_negated(g, i, o, fuel) ==
  IF fuel = 0 THEN [r |-> Hang, g |-> g]
  ELSE LET x == Resume(PinField(g, i, "gen"), i + 1, o)
       IN IF x.r.tag = "Yielded"
          THEN LET g1 == [x.g EXCEPT !.calls[i] = @ + 1]
               IN IF ~ApplyP(Layer(g, i).fn, x.r.val[1])
                  THEN [r |-> x.r, g |-> g1]
                  ELSE Filter_loop_negated(g1, i, o, fuel - 1)
          ELSE x

Filter_resume_negated(g, i, o) == Filter_loop_negated(g, i, o, LoopFuel(g))

\* Filter::resume whose loop goes on when the inner generator completes.
RECURSIVE Filter_loop_deaf(_, _, _, _)
Filter_loop_deaf(g, i, o, fuel) ==
  IF fuel = 0 THEN [r |-> Hang, g |-> g]
  ELSE LET x == Resume(PinField(g, i, "gen"), i + 1, o)
       IN IF x.r.tag = "Yielded"
          THEN LET g1 == [x.g EXCEPT !.calls[i] = @ + 1]
               IN IF ApplyP(Layer(g, i).fn, x.r.val[1])
                  THEN [r |-> x.r, g |-> g1]
                  ELSE Filter_loop_deaf(g1, i, o, fuel - 1)
          ELSE IF x.r.tag = "Complete"
          THEN Filter_loop_deaf(x.g, i, o, fuel - 1)
          ELSE x

Filter_resume_deaf(g, i, o) == Filter_loop_deaf(g, i, o, LoopFuel(g))

\* src/filter.rs: the loop of Filter::resume
RECURSIVE Filter_loop(_, _, _, _)
Filter_loop(g, i, o, fuel) ==
  IF fuel = 0 THEN [r |-> Hang, g |-> g]
  ELSE LET x == Resume(PinField(g, i, "gen"), i + 1, o)
       IN IF x.r.tag = "Yielded"
          THEN LET g1 == [x.g EXCEPT !.calls[i] = @ + 1]
               IN IF ApplyP(Layer(g, i).fn, x.r.val[1])
                  THEN [r |-> x.r, g |-> g1]
                  ELSE Filter_loop(g1, i, o, fuel - 1)
          ELSE x

\* src/filter.rs: Filter::resume
Filter_resume(g, i, o) == Filter_loop(g, i, o, LoopFuel(g))

\* MapYield::resume that hands the inner item on without calling f.
MapYield_resume_raw(g, i, o) ==
  LET x == Resume(PinField(g, i, "g"), i + 1, o)
  IN x

\* src/mapyield.rs: MapYield::resume
MapYield_resume(g, i, o) ==
  LET x == Resume(PinField(g, i, "g"), i + 1, o)
  IN IF x.r.tag = "Yielded"
     THEN [r |-> Yielded(ApplyF(Layer(g, i).fn, x.r.val[1])),
           g |-> [x.g EXCEPT !.calls[i] = @ + 1]]
     ELSE x

\* src/filteryield.rs: the loop of FilterYield::resume; a rejected item falls
\* out of the match and the loop goes round again
RECURSIVE FilterYield_loop(_, _, _, _)
FilterYield_loop(g, i, o, fuel) ==
  IF fuel = 0 THEN [r |-> Hang, g |-> g]
  ELSE LET x == Resume(PinField(g, i, "gen"), i + 1, o)
       IN IF x.r.tag = "Yielded"
          THEN LET g1 == [x.g EXCEPT !.calls[i] = @ + 1]
               IN IF ApplyP(Layer(g, i).fn, x.r.val[1])
                  THEN [r |-> x.r, g |-> g1]
                  ELSE FilterYield_loop(g1, i, o, fuel - 1)
          ELSE x

\* src/filteryield.rs: FilterYield::resume
FilterYield_resume(g, i, o) == FilterYield_loop(g, i, o, LoopFuel(g))

\* Take::resume without the test of count: it counts down and resumes the
\* inner generator on every call.
Take_resume_unguarded(g, i, o) ==
  LET g1 == [g EXCEPT !.layers[i].count = @ - 1]
      x  == Resume(PinField(g1, i, "gen"), i + 1, o)
  IN IF x.r.tag = "Yielded" THEN x
     ELSE IF x.r.tag = "Complete"
     THEN [r |-> Complete(Unit), g |-> [x.g EXCEPT !.layers[i].count = 0]]
     ELSE x

\* Take::resume that resumes the inner generator before it looks at count.
Take_resume_eager(g, i, o) ==
  LET x == Resume(PinField(g, i, "gen"), i + 1, o)
  IN IF Layer(g, i).count # 0
     THEN IF x.r.tag = "Yielded"
          THEN [r |-> x.r, g |-> [x.g EXCEPT !.layers[i].count = @ - 1]]
          ELSE IF x.r.tag = "Complete"
          THEN [r |-> Complete(Unit), g |-> [x.g EXCEPT !.layers[i].count = 0]]
          ELSE x
     ELSE IF x.r.tag \in {"Yielded", "Complete"}
          THEN [r |-> Complete(Unit), g |-> x.g]
          ELSE x

\* Take::resume that leaves count alone when the inner generator completes.
Take_resume_forgets(g, i, o) ==
  IF Layer(g, i).count # 0
  THEN LET g1 == [g EXCEPT !.layers[i].count = @ - 1]
           x  == Resume(PinField(g1, i, "gen"), i + 1, o)
       IN IF x.r.tag = "Yielded" THEN x
          ELSE IF x.r.tag = "Complete"
          THEN [r |-> Complete(Unit), g |-> x.g]
          ELSE x
  ELSE [r |-> Complete(Unit), g |-> g]

\* src/take.rs: Take::resume
Take_resume(g, i, o) ==
  IF Layer(g, i).count # 0
  THEN LET g1 == [g EXCEPT !.layers[i].count = @ - 1]
           x  == Resume(PinField(g1, i, "gen"), i + 1, o)
       IN IF x.r.tag = "Yielded" THEN x
          ELSE IF x.r.tag = "Complete"
          THEN [r |-> Complete(Unit), g |-> [x.g EXCEPT !.layers[i].count = 0]]
          ELSE x
  ELSE [r |-> Complete(Unit), g |-> g]

\* TakeWhile::resume that does not set complete when the predicate fails.
TakeWhile_resume_unset(g, i, o) ==
  IF Layer(g, i).complete THEN [r |-> Complete(Unit), g |-> g]
  ELSE LET x == Resume(PinField(g, i, "gen"), i + 1, o)
       IN IF x.r.tag = "Yielded"
          THEN LET g1 == [x.g EXCEPT !.calls[i] = @ + 1]
               IN IF ApplyP(Layer(g, i).fn, x.r.val[1])
                  THEN [r |-> x.r, g |-> g1]
                  ELSE [r |-> Complete(Unit), g |-> g1]
          ELSE IF x.r.tag = "Complete"
          THEN [r |-> Complete(Unit), g |-> x.g]
          ELSE x

\* src/takewhile.rs: TakeWhile::resume
TakeWhile_resume(g, i, o) ==
  IF Layer(g, i).complete THEN [r |-> Complete(Unit), g |-> g]
  ELSE LET x == Resume(PinField(g, i, "gen"), i + 1, o)
       IN IF x.r.tag = "Yielded"
          THEN LET g1 == [x.g EXCEPT !.calls[i] = @ + 1]
               IN IF ApplyP(Layer(g, i).fn, x.r.val[1])
                  THEN [r |-> x.r, g |-> g1]
                  ELSE [r |-> Complete(Unit),
                        g |-> [g1 EXCEPT !.layers[i].complete = TRUE]]
          ELSE IF x.r.tag = "Complete"
          THEN [r |-> Complete(Unit), g |-> x.g]
          ELSE x

\* GenIter::next that forgets to empty its Option when the generator completes.
GenIter_next_keeps(g, i, a, some, o) ==
  IF some
  THEN LET x == Resume(PinTo(g, i, Append(a, "0")), i, o)
       IN IF x.r.tag = "Yielded"
          THEN [res |-> "Return", ret |-> Some(x.r.val[1]), some |-> TRUE, g |-> x.g]
          ELSE IF x.r.tag = "Complete"
          THEN [res |-> "Return", ret |-> None, some |-> TRUE, g |-> x.g]
          ELSE [res |-> x.r.tag, ret |-> None, some |-> some, g |-> x.g]
  ELSE [res |-> "Return", ret |-> None, some |-> FALSE, g |-> g]

\* GenIter::next that takes the generator out of its Option and does not
\* put it back after a yield.
GenIter_next_takes(g, i, a, some, o) ==
  IF some
  THEN LET x == Resume(PinTo(g, i, Append(a, "0")), i, o)
       IN IF x.r.tag \in {"Yielded", "Complete"}
          THEN [res |-> "Return",
                ret |-> IF x.r.tag = "Yielded" THEN Some(x.r.val[1]) ELSE None,
                some |-> FALSE, g |-> x.g]
          ELSE [res |-> x.r.tag, ret |-> None, some |-> some, g |-> x.g]
  ELSE [res |-> "Return", ret |-> None, some |-> FALSE, g |-> g]

\* GenIter::next that moves the generator out of its Option into a local,
\* resumes it there and moves it back.
GenIter_next_moves(g, i, a, some, o) ==
  IF some
  THEN LET x == Resume(PinTo(g, i, <<"tmp">>), i, o)
       IN IF x.r.tag = "Yielded"
          THEN [res |-> "Return", ret |-> Some(x.r.val[1]), some |-> TRUE, g |-> x.g]
          ELSE IF x.r.tag = "Complete"
          THEN [res |-> "Return", ret |-> None, some |-> FALSE, g |-> x.g]
          ELSE [res |-> x.r.tag, ret |-> None, some |-> some, g |-> x.g]
  ELSE [res |-> "Return", ret |-> None, some |-> FALSE, g |-> g]

\* src/iter.rs: Iterator for Pin<&mut GenIter<G>>::next, on an adapter whose
\* Option is `some` and whose generator is level i.
\* `a` is the place of the adapter (self: Pin<&mut GenIter<G>>).
\* Answers [res, ret |-> Option, some |-> the Option afterwards, g].
GenIter_next(g, i, a, some, o) ==
  IF some
  THEN LET x == Resume(PinTo(g, i, Append(a, "0")), i, o)
       IN IF x.r.tag = "Yielded"
          THEN [res |-> "Return", ret |-> Some(x.r.val[1]), some |-> TRUE, g |-> x.g]
          ELSE IF x.r.tag = "Complete"
          THEN [res |-> "Return", ret |-> None, some |-> FALSE, g |-> x.g]
          ELSE [res |-> x.r.tag, ret |-> None, some |-> some, g |-> x.g]
  ELSE [res |-> "Return", ret |-> None, some |-> FALSE, g |-> g]

\* The generator tests::generator_mapped builds from the original one:
\* `move || { for item in GenIter::new(gen) { yield item * 2 } }`.
\* A generator literal panics when resumed after it has returned.
\* calls[i] counts the resumes of this generator.
Doubler_resume(g, i, o) ==
  IF Layer(g, i).returned THEN [r |-> Panic, g |-> [g EXCEPT !.calls[i] = @ + 1]]
  ELSE LET n == GenIter_next(g, i + 1, Append(g.pin[i], "iter"), Layer(g, i).some, o)
           g1 == [n.g EXCEPT !.layers[i].some = n.some, !.calls[i] = @ + 1]
       IN IF n.res # "Return" THEN [r |-> [tag |-> n.res, val |-> <<>>], g |-> g1]
          ELSE IF n.ret # None
          THEN [r |-> Yielded(n.ret[1] * 2), g |-> g1]
          ELSE [r |-> Complete(Unit), g |-> [g1 EXCEPT !.layers[i].returned = TRUE]]

\* Mapped::resume that applies the user function again on every resume and
\* so starts over with a new generator around the original one.
Mapped_resume_reapplies(g, i, o) ==
  Doubler_resume(PinOwn([g EXCEPT !.layers[i].applied = @ + 1,
                                  !.layers[i].some = TRUE,
                                  !.layers[i].returned = FALSE], i, "0"), i, o)

\* src/mapped.rs: Mapped::resume
Mapped_resume(g, i, o) == Doubler_resume(PinOwn(g, i, "0"), i, o)

\* Generator::resume of whatever sits at level i.
Resume(g, i, o) ==
  LET g1 == Enter(g, i)
      k  == IF i = LeafLevel(g) THEN "leaf" ELSE Layer(g, i).kind
      x  == CASE k = "leaf"       -> Leaf_resume(g1, o)
              [] k = "map"        -> Map_resume(g1, i, o)
              [] k = "filter"     -> Filter_resume(g1, i, o)
              [] k = "take"       -> Take_resume(g1, i, o)
              [] k = "take_while" -> TakeWhile_resume(g1, i, o)
              [] k = "mapped"     -> Mapped_resume(g1, i, o)
  IN [r |-> x.r, g |-> Leave(x.g, i, x.r)]

\* fold_ret that folds every item into the initial value instead of into
\* the accumulator.
RECURSIVE fold_loop_stale(_, _, _, _, _, _)
fold_loop_stale(g, init, acc, f, o, fuel) ==
  IF fuel = 0 THEN [res |-> "Hang", acc |-> acc, ret |-> <<>>, g |-> g]
  ELSE LET x == Resume(PinAt(g, "self"), 1, o)
       IN IF x.r.tag = "Yielded"
          THEN fold_loop_stale(x.g, init, ApplyFold(f, init, x.r.val[1]), f, o, fuel - 1)
          ELSE IF x.r.tag = "Complete"
          THEN [res |-> "Return", acc |-> acc, ret |-> x.r.val, g |-> x.g]
          ELSE [res |-> x.r.tag, acc |-> acc, ret |-> <<>>, g |-> x.g]

fold_ret_stale(g, init, f, o) == fold_loop_stale(g, init, init, f, o, LoopFuel(g))

\* src/generatorext.rs: the loop of GeneratorExt::fold_ret
RECURSIVE fold_loop(_, _, _, _, _)
fold_loop(g, init, f, o, fuel) ==
  IF fuel = 0 THEN [res |-> "Hang", acc |-> init, ret |-> <<>>, g |-> g]
  ELSE LET x == Resume(PinAt(g, "self"), 1, o)
       IN IF x.r.tag = "Yielded"
          THEN fold_loop(x.g, ApplyFold(f, init, x.r.val[1]), f, o, fuel - 1)
          ELSE IF x.r.tag = "Complete"
          THEN [res |-> "Return", acc |-> init, ret |-> x.r.val, g |-> x.g]
          ELSE [res |-> x.r.tag, acc |-> init, ret |-> <<>>, g |-> x.g]

\* src/generatorext.rs: GeneratorExt::fold_ret, answering (init, r)
fold_ret(g, init, f, o) == fold_loop(g, init, f, o, LoopFuel(g))

\* src/generatorext.rs: GeneratorExt::fold, `self.fold_ret(init, f).0`
fold(g, init, f, o) ==
  LET x == fold_ret(g, init, f, o) IN [x EXCEPT !.ret = <<>>]

\* --------------------------------------------------------- construction
\* A combinator struct is built around the chain g by value: the new struct
\* becomes level 1 and every level below moves one down.
Wrap(g, l) ==
  [g EXCEPT !.layers    = <<l>> \o @,
            !.resumes   = <<0>> \o @,
            !.outs      = <<<<>>>> \o @,
            !.calls     = <<0>> \o @,
            !.completed = <<FALSE>> \o @,
            !.late      = <<FALSE>> \o @,
            !.pin       = <<<<>>>> \o @,
            !.at        = <<{}>> \o @,
            !.rets      = <<<<>>>> \o @]

\* src/generatorext.rs: GeneratorExt::map
GeneratorExt_map(g, f) == Wrap(g, Map_new(f))

\* filter() that fetches the first item already when it is built.
GeneratorExt_filter_primed(g, p) ==
  Resume(PinAt(Wrap(g, Filter_new(p)), "self"), 1, Panic).g

\* src/generatorext.rs: GeneratorExt::filter
GeneratorExt_filter(g, p) == Wrap(g, Filter_new(p))

\* src/generatorext.rs: GeneratorExt::take_while
GeneratorExt_take_while(g, p) == Wrap(g, TakeWhile_new(p))

\* src/generatorext.rs: GeneratorExt::take
GeneratorExt_take(g, n) == Wrap(g, Take_new(n))

\* src/generatorext.rs: GeneratorExt::mapped with the transform of
\* tests::generator_mapped
GeneratorExt_mapped(g) == Wrap(g, [Mapped_new EXCEPT !.applied = @ + 1])

\* src/iter.rs: GenIter::new, GenIter::new_unchecked: Self(Some(gen))
GenIter_new(g) == [some |-> TRUE, g |-> g]

\* src/generatorext.rs: PinGeneratorExt::iter, an adapter around `&mut self`;
\* resuming the `&mut G` resumes the generator it points to
PinGeneratorExt_iter(g) == GenIter_new(g)

\* src/generatorext.rs: GeneratorExt::into_iter
into_iter(g) == GenIter_new(g)

\* ---------------------------------------------------------------- state
VARIABLES
  gen,     \* the chain: combinator structs, leaf and observation counters
  mode,    \* "build" while the chain is put together, then how the caller
           \* drives it: "iter", "resume", "fold", "fold_ret"
  iter,    \* GenIter.0 is Some
  trace,   \* what each call on the outermost handle returned, in order
  status,  \* "running", or "Panic" / "Hang" once a call did not return
  farg     \* the (init, f) given to fold / fold_ret

vars == <<gen, mode, iter, trace, status, farg>>

Modes == {"build", "iter", "iter_mut", "resume", "fold", "fold_ret"}

\* A leaf generator has been created; nothing is wrapped around it yet.
Init ==
  /\ \E items \in SeqsUpTo(Values, MaxLen) : gen = NewChain(<<>>, items, 7)
  /\ mode = "build"
  /\ iter = FALSE
  /\ trace = <<>>
  /\ status = "running"
  /\ farg = [init |-> 1, f |-> "add"]

\* The caller wraps the chain in one more combinator.
Chain ==
  /\ mode = "build" /\ Len(gen.layers) < MaxDepth
  /\ \/ \E f \in Transforms : gen' = GeneratorExt_map(gen, f)
     \/ \E p \in Predicates : gen' = GeneratorExt_filter(gen, p)
     \/ \E p \in Predicates : gen' = GeneratorExt_take_while(gen, p)
     \/ \E n \in 0..MaxTake : gen' = GeneratorExt_take(gen, n)
     \/ gen' = GeneratorExt_mapped(gen)
  /\ UNCHANGED <<mode, iter, trace, status, farg>>

\* The caller puts the chain into an iterator adapter.
IntoIter ==
  /\ mode = "build"
  /\ LET a == into_iter(gen)
     IN gen' = a.g /\ iter' = a.some
  /\ mode' = "iter"
  /\ UNCHANGED <<trace, status, farg>>

\* The caller calls next() on the adapter around the chain.
CallNext ==
  /\ mode \in {"iter", "iter_mut"} /\ status = "running" /\ Len(trace) < MaxCalls
  /\ \E o \in LateOutcomes :
       LET n == GenIter_next(gen, 1, <<"iter">>, iter, o)
       IN /\ gen' = n.g
          /\ iter' = n.some
          /\ IF n.res = "Return"
             THEN trace' = Append(trace, n.ret) /\ status' = status
             ELSE trace' = trace /\ status' = n.res
  /\ UNCHANGED <<mode, farg>>

\* The caller resumes the outermost generator directly.
CallResume ==
  /\ mode \in {"build", "resume"} /\ status = "running" /\ Len(trace) < MaxCalls
  /\ mode' = "resume"
  /\ \E o \in LateOutcomes :
       LET x == Resume(PinAt(gen, "gen"), 1, o)
       IN /\ gen' = x.g
          /\ IF x.r.tag \in {"Yielded", "Complete"}
             THEN trace' = Append(trace, x.r) /\ status' = status
             ELSE trace' = trace /\ status' = x.r.tag
  /\ UNCHANGED <<iter, farg>>

\* The caller folds the freshly built chain with fold or fold_ret.
CallFold ==
  /\ mode = "build"
  /\ \E m \in {"fold", "fold_ret"}, f \in Folders, o \in LateOutcomes :
       LET x == IF m = "fold" THEN fold(gen, farg.init, f, o)
                ELSE fold_ret(gen, farg.init, f, o)
       IN /\ mode' = m
          /\ farg' = [farg EXCEPT !.f = f]
          /\ gen' = x.g
          /\ IF x.res = "Return"
             THEN trace' = <<[acc |-> x.acc, ret |-> x.ret]>> /\ status' = status
             ELSE trace' = trace /\ status' = x.res
  /\ UNCHANGED iter

\* The caller borrows the chain into a new adapter, iter() or
\* GenIter::new(&mut g); an earlier adapter over the same chain is gone.
BorrowIter ==
  /\ mode \in {"build", "iter_mut"}
  /\ LET a == PinGeneratorExt_iter(gen)
     IN gen' = a.g /\ iter' = a.some
  /\ mode' = "iter_mut"
  /\ UNCHANGED <<trace, status, farg>>

Next == Chain \/ IntoIter \/ CallNext \/ CallResume \/ CallFold

Spec == Init /\ [][Next]_vars

\* Chains that are only ever iterated through adapters that borrow them.
NextBorrowed == Chain \/ BorrowIter \/ CallNext

SpecBorrowed == Init /\ [][NextBorrowed]_vars


\* ------------------------------------------------------------ vocabulary
Levels(g) == 1..Len(g.layers)
KindAt(g, i) == IF i = LeafLevel(g) THEN "leaf" ELSE g.layers[i].kind
Last(s) == s[Len(s)]
\* the number of entries of s that equal x
RECURSIVE Count(_, _)
Count(s, x) ==
  IF s = <<>> THEN 0 ELSE (IF Head(s) = x THEN 1 ELSE 0) + Count(Tail(s), x)
\* the values of the Some(_) entries of a sequence of Options, in order
RECURSIVE Somes(_)
Somes(s) ==
  IF s = <<>> THEN <<>>
  ELSE (IF Head(s) = None THEN <<>> ELSE <<Head(s)[1]>>) \o Somes(Tail(s))
\* the total number of resume() calls made on all levels
RECURSIVE SumTo(_, _)
SumTo(f, n) == IF n = 0 THEN 0 ELSE f[n] + SumTo(f, n - 1)
TotalResumes(g) == SumTo(g.resumes, LeafLevel(g))

\* the longest prefix of s whose items all satisfy predicate p
RECURSIVE LongestPrefix(_, _)
LongestPrefix(p, s) ==
  IF s = <<>> \/ ~ApplyP(p, Head(s)) THEN <<>>
  ELSE <<Head(s)>> \o LongestPrefix(p, Tail(s))
\* the items of s that satisfy predicate p, in order
RECURSIVE Selected(_, _)
Selected(p, s) ==
  IF s = <<>> THEN <<>>
  ELSE (IF ApplyP(p, Head(s)) THEN <<Head(s)>> ELSE <<>>) \o Selected(p, Tail(s))
\* s with transform f applied to every item
MapSeq(f, s) == [k \in 1..Len(s) |-> ApplyF(f, s[k])]
\* the left fold f(..f(f(b, s[1]), s[2]).., s[n])
RECURSIVE FoldL(_, _, _)
FoldL(f, b, s) ==
  IF s = <<>> THEN b ELSE FoldL(f, ApplyFold(f, b, Head(s)), Tail(s))
IsPrefix(s, t) == Len(s) <= Len(t) /\ SubSeq(t, 1, Len(s)) = s
\* the Return value level i hands out: Map and Filter pass the inner one
\* through, Take, TakeWhile and the doubling generator return ()
RECURSIVE ReturnOf(_, _)
ReturnOf(g, i) ==
  IF i = LeafLevel(g) THEN <<g.ret>>
  ELSE IF g.layers[i].kind \in {"map", "filter"} THEN ReturnOf(g, i + 1)
  ELSE Unit
\* the caller resumes the outermost generator itself, and it is level i
Direct(i) == mode = "resume" /\ i = 1

\* next() has returned None at least once
Exhausted == mode = "iter" /\ \E k \in 1..Len(trace) : trace[k] = None

\* ---------------------------------------------------------------- claims

\* C1: once next() on a GenIter has returned None, every later next() also
\* returns None, the adapter's Option stays None, and no generator of the
\* chain is resumed again.
C1_ExhaustionMonotone ==
  [][Exhausted =>
       /\ ~iter /\ ~iter'
       /\ trace' = Append(trace, None)
       /\ gen'.resumes = gen.resumes
       /\ gen' = gen]_vars

\* a next() call was made on an adapter that had already returned None
C1_Witness ==
  /\ mode = "iter" /\ Len(trace) >= 3 /\ gen.outs[1] # <<>>
  /\ trace[Len(trace) - 1] = None /\ Last(trace) = None

\* C2: next() on a non-exhausted GenIter resumes the wrapped generator
\* exactly once; Yielded(v) gives Some(v) and the Option stays Some,
\* Complete gives None and empties the Option.  Over a generator yielding
\* src and then returning, the calls return Some(src[1]), .., Some(src[n]),
\* None, after Len(src) + 1 resumes.
C2_NextStep ==
  (mode = "iter" /\ iter) =>
     /\ gen'.resumes[1] = gen.resumes[1] + 1
     /\ status' = "running"
     /\ \/ /\ Len(gen'.outs[1]) = Len(gen.outs[1]) + 1
           /\ SubSeq(gen'.outs[1], 1, Len(gen.outs[1])) = gen.outs[1]
           /\ trace' = Append(trace, Some(Last(gen'.outs[1])))
           /\ iter' /\ ~gen'.completed[1]
        \/ /\ gen'.outs[1] = gen.outs[1]
           /\ gen'.completed[1]
           /\ trace' = Append(trace, None)
           /\ ~iter'

C2_Sequence ==
  (mode = "iter" /\ gen.layers = <<>>) =>
     /\ \A k \in 1..Len(trace) :
          trace[k] = IF k <= Len(gen.src) THEN Some(gen.src[k]) ELSE None
     /\ gen.resumes[1] = IF Len(trace) <= Len(gen.src) THEN Len(trace)
                         ELSE Len(gen.src) + 1

C2_NextResumesOnce == [](C2_Sequence) /\ [][C2_NextStep]_vars

\* the adapter has returned every item of a non-empty source and then None
C2_Witness ==
  /\ mode = "iter" /\ gen.layers = <<>> /\ Len(gen.src) = MaxLen
  /\ Len(trace) = Len(gen.src) + 1 /\ Last(trace) = None /\ ~iter
  /\ gen.resumes[1] = Len(gen.src) + 1

\* C3: in a chain driven only through one GenIter, no generator of the
\* chain (leaf or combinator) is ever resumed after it returned Complete,
\* and no call panics or hangs.
C3_NoResumeAfterComplete ==
  mode = "iter" =>
     /\ \A i \in 1..LeafLevel(gen) : ~gen.late[i]
     /\ status = "running"

\* next() was called twice more on a two-combinator chain whose leaf completed
C3_Witness ==
  /\ mode = "iter" /\ Len(gen.layers) = 2 /\ gen.done
  /\ \A i \in 1..LeafLevel(gen) : gen.completed[i]
  /\ Count(trace, None) >= 3


\* C4: when the inner generator returns Complete, TakeWhile::resume sets
\* its complete flag, so the inner generator is never resumed again.
C4_TakeWhileSetsComplete ==
  \A i \in Levels(gen) :
     gen.layers[i].kind = "take_while" =>
        /\ gen.completed[i + 1] => gen.layers[i].complete
        /\ ~gen.late[i + 1]

\* C5: TakeWhile yields exactly the longest prefix of the inner items that
\* satisfy the predicate; the first failing item is examined, dropped and
\* sets complete; from then on every resume() returns Complete(()) and the
\* inner generator is not resumed, so later items are never examined.
C5_State ==
  \A i \in Levels(gen) :
     gen.layers[i].kind = "take_while" =>
        LET p     == gen.layers[i].fn
            inner == gen.outs[i + 1]
            pre   == LongestPrefix(p, inner)
        IN /\ gen.outs[i] = pre
           /\ gen.calls[i] = Len(inner)
           /\ gen.layers[i].complete <=> pre # inner
           /\ gen.layers[i].complete =>
                 /\ gen.completed[i]
                 /\ inner = Append(pre, Last(inner))
                 /\ ~ApplyP(p, Last(inner))
           /\ (Len(gen.layers) = 1 /\ ~gen.late[2]) =>
                 /\ IsPrefix(gen.outs[1], LongestPrefix(p, gen.src))
                 /\ gen.completed[1] => gen.outs[1] = LongestPrefix(p, gen.src)
                 /\ gen.layers[1].complete => gen.pos = Len(gen.outs[1]) + 1

C5_Step ==
  \A i \in Levels(gen) :
     (gen.layers[i].kind = "take_while" /\ gen.layers[i].complete) =>
        /\ gen'.resumes[i + 1] = gen.resumes[i + 1]
        /\ gen'.outs[i] = gen.outs[i]
        /\ gen'.pos = gen.pos
        /\ gen'.calls[i] = gen.calls[i]
        /\ Direct(i) => trace' = Append(trace, Complete(Unit))

C5_TakeWhileBoundary == [](C5_State) /\ [][C5_Step]_vars

\* a TakeWhile resumed twice more after a failing item that has a
\* non-empty accepted prefix before it and an item after it
C5_Witness ==
  /\ Direct(1) /\ Len(gen.layers) = 1 /\ gen.layers[1].kind = "take_while"
  /\ gen.layers[1].complete /\ gen.outs[1] # <<>>
  /\ gen.pos < Len(gen.src)
  /\ Count(trace, Complete(Unit)) >= 3

\* C6: Take(0) yields nothing and never resumes the inner generator;
\* Take(n) over a generator with more than n items yields exactly the
\* first n in order, then Complete(()), after exactly n inner resumes.
C6_TakeBoundary ==
  \A i \in Levels(gen) :
     gen.layers[i].kind = "take" =>
        LET n == gen.layers[i].given
        IN /\ n = 0 => gen.outs[i] = <<>> /\ gen.resumes[i + 1] = 0
           /\ gen.outs[i] = gen.outs[i + 1]
           /\ Len(gen.outs[i]) <= n
           /\ gen.resumes[i + 1] <= n
           /\ (Len(gen.layers) = 1 /\ Len(gen.src) > n) =>
                 /\ IsPrefix(gen.outs[1], SubSeq(gen.src, 1, n))
                 /\ ~gen.done
                 /\ gen.completed[1] =>
                       /\ gen.outs[1] = SubSeq(gen.src, 1, n)
                       /\ gen.resumes[2] = n
                       /\ gen.pos = n
                 /\ mode = "resume" =>
                       \A k \in 1..Len(trace) :
                          trace[k] = IF k <= n THEN Yielded(gen.src[k])
                                     ELSE Complete(Unit)

\* Take(n), n > 0, over a longer generator, resumed twice beyond its end
C6_Witness ==
  /\ Direct(1) /\ Len(gen.layers) = 1 /\ gen.layers[1].kind = "take"
  /\ gen.layers[1].given > 0 /\ Len(gen.src) > gen.layers[1].given
  /\ Len(trace) >= gen.layers[1].given + 2
  /\ gen.resumes[2] = gen.layers[1].given

\* C7: once Take::resume has returned Complete(()), count is 0, every later
\* resume() returns Complete(()) and the inner generator is not resumed.
C7_State ==
  \A i \in Levels(gen) :
     (gen.layers[i].kind = "take" /\ gen.completed[i]) => gen.layers[i].count = 0

C7_Step ==
  \A i \in Levels(gen) :
     (gen.layers[i].kind = "take" /\ gen.completed[i]) =>
        /\ gen'.resumes[i + 1] = gen.resumes[i + 1]
        /\ gen'.outs[i] = gen.outs[i]
        /\ gen'.layers[i].count = 0
        /\ Direct(i) => trace' = Append(trace, Complete(Unit)) /\ status' = "running"

C7_TakeTerminal == [](C7_State) /\ [][C7_Step]_vars

\* a Take that ended because its inner generator completed early, resumed
\* twice more
C7_Witness ==
  /\ Direct(1) /\ Len(gen.layers) = 1 /\ gen.layers[1].kind = "take"
  /\ gen.layers[1].given > Len(gen.src) + 1 /\ gen.done
  /\ Count(trace, Complete(Unit)) >= 3

\* C8: Map yields f of every inner item, in the same order and number;
\* f is applied once per yielded item and each Map::resume resumes the
\* inner generator exactly once.
C8_MapPreserves ==
  \A i \in Levels(gen) :
     gen.layers[i].kind = "map" =>
        /\ gen.outs[i] = MapSeq(gen.layers[i].fn, gen.outs[i + 1])
        /\ gen.calls[i] = Len(gen.outs[i + 1])
        /\ gen.resumes[i] = gen.resumes[i + 1]
        /\ (Len(gen.layers) = 1 /\ gen.completed[1] /\ ~gen.late[1]) =>
              /\ gen.outs[1] = MapSeq(gen.layers[1].fn, gen.src)
              /\ gen.calls[1] = Len(gen.src)

\* a Map resumed to completion over a source of full length
C8_Witness ==
  /\ Direct(1) /\ Len(gen.layers) = 1 /\ gen.layers[1].kind = "map"
  /\ gen.completed[1] /\ ~gen.late[1] /\ Len(gen.src) = MaxLen
  /\ Len(gen.outs[1]) = MaxLen

\* C9: Filter yields exactly the inner items that satisfy the predicate, in
\* order, testing each inner item once; when it completes, the inner
\* generator has been resumed once per item plus once for its completion.
C9_FilterSelects ==
  \A i \in Levels(gen) :
     gen.layers[i].kind = "filter" =>
        /\ gen.outs[i] = Selected(gen.layers[i].fn, gen.outs[i + 1])
        /\ gen.calls[i] = Len(gen.outs[i + 1])
        /\ (gen.completed[i] /\ ~gen.late[i]) =>
              gen.resumes[i + 1] = Len(gen.outs[i + 1]) + 1
        /\ (Len(gen.layers) = 1 /\ gen.completed[1] /\ ~gen.late[1]) =>
              /\ gen.outs[1] = Selected(gen.layers[1].fn, gen.src)
              /\ gen.calls[1] = Len(gen.src)
              /\ gen.resumes[2] = Len(gen.src) + 1

\* a Filter resumed to completion that both kept and rejected items
C9_Witness ==
  /\ Direct(1) /\ Len(gen.layers) = 1 /\ gen.layers[1].kind = "filter"
  /\ gen.completed[1] /\ ~gen.late[1]
  /\ gen.outs[1] # <<>> /\ Len(gen.outs[1]) + 2 <= Len(gen.src)

\* C10: fold returns the left fold of f over everything the generator
\* yields, in yield order; fold_ret returns it with the generator's Return
\* value; both resume the generator once per yield plus once, and never
\* after it returned Complete.
C10_Fold ==
  (mode \in {"fold", "fold_ret"} /\ trace # <<>>) =>
     /\ status = "running"
     /\ trace[1].acc = FoldL(farg.f, farg.init, gen.outs[1])
     /\ trace[1].ret = IF mode = "fold_ret" THEN ReturnOf(gen, 1) ELSE <<>>
     /\ gen.resumes[1] = Len(gen.outs[1]) + 1
     /\ gen.completed[1]
     /\ \A i \in 1..LeafLevel(gen) : ~gen.late[i]
     /\ gen.layers = <<>> =>
           /\ trace[1].acc = FoldL(farg.f, farg.init, gen.src)
           /\ gen.resumes[1] = Len(gen.src) + 1

\* fold_ret has folded a full-length source with the order-sensitive folder
C10_Witness ==
  /\ mode = "fold_ret" /\ trace # <<>> /\ gen.layers = <<>>
  /\ Len(gen.src) = MaxLen /\ farg.f = "horner"
  /\ trace[1].ret = <<gen.ret>>


\* C13: building a chain with map, filter, take, take_while and putting it
\* into a GenIter resumes nothing and calls no closure: until the first
\* next(), resume() or fold, the leaf generator has not moved.
C13_LazyConstruction ==
  (trace = <<>> /\ status = "running" /\ mode \in {"build", "iter"}) =>
     /\ \A i \in 1..LeafLevel(gen) :
          /\ gen.resumes[i] = 0
          /\ gen.calls[i] = 0
          /\ gen.outs[i] = <<>>
          /\ ~gen.completed[i]
     /\ gen.pos = 0 /\ ~gen.done
     /\ \A i \in Levels(gen) :
          /\ gen.layers[i].count = gen.layers[i].given
          /\ ~gen.layers[i].complete

\* a chain of two combinators has been built and put into an adapter
C13_Witness ==
  /\ mode = "iter" /\ trace = <<>> /\ iter
  /\ Len(gen.layers) = 2 /\ gen.src # <<>>
  /\ gen.layers[1].kind = "filter" /\ gen.layers[2].kind = "take"


\* the field through which the struct at level i reaches its inner generator
InnerPath(g, i) ==
  LET k == g.layers[i].kind
  IN IF k = "map" THEN <<"g">>
     ELSE IF k = "mapped" THEN <<"0", "iter", "0">>
     ELSE <<"gen">>
\* the place of level i when level 1 lives at place a
RECURSIVE PlaceOf(_, _, _)
PlaceOf(g, i, a) ==
  IF i = 1 THEN a ELSE PlaceOf(g, i - 1, a) \o InnerPath(g, i - 1)
\* where the caller keeps level 1
Root ==
  IF mode = "iter" THEN <<"iter", "0">>
  ELSE IF mode = "resume" THEN <<"gen">>
  ELSE <<"self">>

\* C12: every generator of the ownership tree is only ever resumed at one
\* place, the inner field of the struct that owns it (for level 1: the
\* Option of the adapter, or the caller's own variable); no operation
\* resumes it anywhere else.
C12_PinnedInPlace ==
  \A i \in 1..LeafLevel(gen) :
     /\ Cardinality(gen.at[i]) <= 1
     /\ gen.at[i] \subseteq {PlaceOf(gen, i, Root)}
     /\ gen.resumes[i] > 0 => gen.at[i] # {}

\* the leaf under two combinators and an adapter was resumed several times
C12_Witness ==
  /\ mode = "iter" /\ Len(gen.layers) = 2 /\ gen.resumes[3] >= 3
  /\ gen.layers[1].kind = "map" /\ gen.layers[2].kind = "mapped"
  /\ gen.at[3] = {<<"iter", "0", "g", "0", "iter", "0">>}


\* C11: mapped(f) applies f once, when the chain is built; each
\* Mapped::resume resumes the produced generator exactly once and hands its
\* result on unchanged.  With the doubling transform an adapter on top
\* returns twice each item of the original generator, then None, and a
\* further next() returns None without any late resume.
C11_MappedDelegates ==
  \A i \in Levels(gen) :
     gen.layers[i].kind = "mapped" =>
        /\ gen.layers[i].applied = 1
        /\ gen.calls[i] = gen.resumes[i]
        /\ gen.outs[i] = MapSeq("double", gen.outs[i + 1])
        /\ gen.completed[i] <=> gen.layers[i].returned
        /\ gen.layers[i].returned => ~gen.layers[i].some /\ gen.completed[i + 1]
        /\ (mode = "iter" /\ Len(gen.layers) = 1) =>
              /\ \A k \in 1..Len(trace) :
                    trace[k] = IF k <= Len(gen.src) THEN Some(2 * gen.src[k])
                               ELSE None
              /\ \A j \in 1..LeafLevel(gen) : ~gen.late[j]
              /\ status = "running"

\* an adapter around Mapped returned every doubled item, None, and None again
C11_Witness ==
  /\ mode = "iter" /\ Len(gen.layers) = 1 /\ gen.layers[1].kind = "mapped"
  /\ Len(gen.src) = MaxLen /\ Len(trace) = Len(gen.src) + 2
  /\ gen.resumes[1] = Len(gen.src) + 1


\* C14: when the inner generator returns Complete(r), Map::resume and
\* Filter::resume return Complete(r) with the same r, at once, and do not
\* call the closure for it.
C14_CompletionPassesThrough ==
  \A i \in Levels(gen) :
     gen.layers[i].kind \in {"map", "filter"} =>
        /\ gen.completed[i] <=> gen.completed[i + 1]
        /\ gen.rets[i] = gen.rets[i + 1]
        /\ gen.calls[i] = Len(gen.outs[i + 1])
        /\ (Len(gen.layers) = 1 /\ gen.completed[1] /\ ~gen.late[2]) =>
              /\ gen.rets[1] = <<gen.ret>>
              /\ gen.resumes[2] = Len(gen.src) + 1
              /\ mode = "resume" => Last(trace) = Complete(<<gen.ret>>)

\* one resume() of a Filter skipped only rejected items and returned the
\* Return value of the leaf
C14_Witness ==
  /\ Direct(1) /\ Len(gen.layers) = 1 /\ gen.layers[1].kind = "filter"
  /\ Len(gen.src) = MaxLen /\ gen.calls[1] = MaxLen
  /\ trace = <<Complete(<<gen.ret>>)>>


\* C15: one Filter::resume keeps resuming the inner generator until an
\* accepted item or the inner completion: it returns nothing else, and it
\* does return as long as level 1 was not resumed after its own completion
\* (every call on a generator that completes after finitely many yields).
C15_FilterReturns ==
  /\ status = "Hang" => gen.late[1]
  /\ \A i \in Levels(gen) :
       gen.layers[i].kind = "filter" =>
          /\ \A k \in 1..Len(gen.outs[i]) : ApplyP(gen.layers[i].fn, gen.outs[i][k])
          /\ gen.completed[i] => gen.completed[i + 1]
          /\ (~gen.completed[i + 1] /\ status = "running") =>
                gen.resumes[i] = Len(gen.outs[i])
          /\ (~gen.late[i + 1] /\ status = "running") =>
                gen.resumes[i + 1] =
                   Len(gen.outs[i + 1]) + (IF gen.completed[i + 1] THEN 1 ELSE 0)
          /\ (~gen.late[1] /\ Direct(i)) =>
                /\ status = "running"
                /\ Len(trace) = gen.resumes[i]

\* one resume() of a Filter went past two rejected items to an accepted one
C15_Witness ==
  /\ Direct(1) /\ Len(gen.layers) = 1 /\ gen.layers[1].kind = "filter"
  /\ gen.resumes[1] = 1 /\ gen.resumes[2] = 3
  /\ Len(trace) = 1 /\ trace[1].tag = "Yielded"


\* The chain as Generator::resume finds it when the caller resumes level 1.
Entered == Enter(PinAt(gen, "gen"), 1)

\* C16: resumed in the same state, FilterYield::resume gives what
\* Filter::resume gives and MapYield::resume what Map::resume gives: the
\* same result, the same resumes of the inner generator, the same calls of
\* the closure (all of them recorded in the chain that comes back).
C16_YieldVariantsAgree ==
  (Direct(1) /\ status = "running" /\ Len(gen.layers) >= 1) =>
     \A o \in LateOutcomes :
        /\ gen.layers[1].kind = "filter" =>
              FilterYield_resume(Entered, 1, o) = Filter_resume(Entered, 1, o)
        /\ gen.layers[1].kind = "map" =>
              MapYield_resume(Entered, 1, o) = Map_resume(Entered, 1, o)

\* a Map that has yielded and still has an item to map, and the variant maps it
C16_Witness ==
  /\ Direct(1) /\ status = "running" /\ Len(gen.layers) >= 1
  /\ gen.layers[1].kind = "map" /\ gen.calls[1] = 1
  /\ MapYield_resume(Entered, 1, Panic).r.tag = "Yielded"
  /\ MapYield_resume(Entered, 1, Panic).g.calls[1] = 2


\* C17: for a Take built with n: its inner generator is resumed at most n
\* times in all, it yields at most n items, count stays within 0..n, and as
\* long as the inner generator has not completed count + inner resumes = n.
C17_TakeBudget ==
  \A i \in Levels(gen) :
     gen.layers[i].kind = "take" =>
        /\ gen.layers[i].count \in 0..gen.layers[i].given
        /\ gen.resumes[i + 1] <= gen.layers[i].given
        /\ Len(gen.outs[i]) <= gen.layers[i].given
        /\ Len(gen.outs[i]) <= Len(gen.outs[i + 1])
        /\ ~gen.completed[i + 1] =>
              gen.layers[i].count + gen.resumes[i + 1] = gen.layers[i].given

\* a Take(MaxTake) half way: one item out, one unit of the budget left
C17_Witness ==
  /\ Len(gen.layers) >= 1 /\ gen.layers[1].kind = "take"
  /\ gen.layers[1].given = MaxTake /\ gen.layers[1].count = MaxTake - 1
  /\ gen.resumes[2] = 1 /\ ~gen.completed[2] /\ Len(gen.outs[1]) = 1


\* C18: under adapters that borrow the same generator one after another,
\* the generator is never resumed after it has returned Complete (and so
\* no next() panics or hangs).
C18_BorrowedNeverResumedLate ==
  mode = "iter_mut" => (~gen.late[1] /\ status = "running")

====
